---- MODULE Spec2Model ----
(***************************************************************************)
(* Mirror: an in-memory mirror of the object stores of one IndexedDB       *)
(* database.  The model follows the latest revision of the library (the    *)
(* one with Mirror.Storage, select and innerjoin).                         *)
(*                                                                         *)
(* JavaScript objects and arrays are references, so both live in heaps:    *)
(*   heap   : object id -> record (a function from field names to values)  *)
(*   arrays : array id  -> sequence of object ids                          *)
(* mi.storageData[name] and every view's storageData hold array ids.       *)
(***************************************************************************)
EXTENDS Integers, Sequences, FiniteSets, TLC

\* ------------------------------------------------------------- bounds
MaxKey == 2            \* keys of records are 1..MaxKey
MaxVal == 2            \* values of the non-key field are 1..MaxVal
MaxChanges == 2        \* longest changes array handed to update
MaxStored == 2         \* records the database holds when the view operations start
MaxOps == 3            \* calls the application makes once the mirror is loaded
MaxText == 2           \* longest text a field or a filter of match holds
MaxMatch == 2          \* records of the collection match is explored on
MaxLoop == 8           \* pushes after which a loop that feeds on its own result is given up

Names == {"X", "Y"}                 \* object store names the application uses
KeyField == "id"
Fields == {"id", "a"}
Keys == 1..MaxKey
Vals == 1..MaxVal
FieldVals(f) == IF f = KeyField THEN Keys ELSE Vals
Records == {r \in [Fields -> Keys \cup Vals] : \A f \in Fields : r[f] \in FieldVals(f)}
Opts == {[keyPath |-> KeyField]}    \* createStorage configurations

Empty == [x \in {} |-> 0]
Put(f, k, v) == [x \in DOMAIN f \cup {k} |-> IF x = k THEN v ELSE f[x]]
Range(s) == {s[i] : i \in DOMAIN s}
MinOf(S) == CHOOSE x \in S : \A y \in S : x <= y

RECURSIVE SetToSeq(_)
SetToSeq(S) == IF S = {} THEN <<>>
               ELSE LET x == CHOOSE y \in S : TRUE IN <<x>> \o SetToSeq(S \ {x})

\* the element of a one-element set; binding an expression this way evaluates it once
Only(S) == CHOOSE x \in S : TRUE

\* the sequence s0 without the later occurrences of its elements
Dedupe(s0) ==
  Only({LET First(i) == \A j \in 1..(i - 1) : s[j] # s[i]
        IN Only({[k \in DOMAIN keep |-> s[keep[k]]] :
                   keep \in {SelectSeq([i \in DOMAIN s |-> i], First)}}) : s \in {s0}})

RECURSIVE Flatten(_)
Flatten(ss) == IF ss = <<>> THEN <<>> ELSE Head(ss) \o Flatten(Tail(ss))

IndexOf(s, x) == CHOOSE i \in DOMAIN s : s[i] = x

VARIABLES
  storageConfig,   \* mi.storageConfig: store name -> opts
  idbConnection,   \* mi.idbConnection: "null" or "conn"
  storageData,     \* mi.storageData: store name -> array id
  request,         \* the IDBOpenDBRequest of open: none, pending, upgraded, success
  oncomplete,      \* whether open was given a callback
  db,              \* the database: [new, stores: name -> [keyPath, data: key -> record]]
  counter,         \* sync's closure variable
  cursor,          \* per store: [pos: records delivered, done: exhaustion reported]
  readyCalls,      \* how many times the onready callback has run
  arrays,          \* array heap: array id -> sequence of object ids
  heap,            \* object heap: object id -> record
  views,           \* the Mirror.Storage instances the application holds
  pending,         \* write requests issued to the database, not yet applied
  ret,             \* outcome of the last call made on a view: [t, v]
  nops,            \* number of calls the application has made since onready
  self             \* the global variable self that open assigns (self = this, no var)

vars == <<storageConfig, idbConnection, storageData, request, oncomplete, db,
          counter, cursor, readyCalls, arrays, heap, views, pending, ret, nops, self>>

\* the values of self: the window before any open, then a Mirror; the model of one
\* Mirror calls it Mi
Window == 0
Mi == 1

\* ------------------------------------------------------------- database
objectStoreNames == DOMAIN db.stores

RECURSIVE SortedKeys(_)
SortedKeys(S) == IF S = {} THEN <<>> ELSE <<MinOf(S)>> \o SortedKeys(S \ {MinOf(S)})

\* what a cursor over the store yields: its records in ascending key order
CursorOrder(n) == [i \in 1..Cardinality(DOMAIN db.stores[n].data) |->
                     db.stores[n].data[SortedKeys(DOMAIN db.stores[n].data)[i]]]

StoreContents == {c \in UNION {[K -> Records] : K \in SUBSET Keys} :
                    \A k \in DOMAIN c : c[k][KeyField] = k}
StoresOver(N) == UNION {[S -> {[keyPath |-> o.keyPath, data |-> d] :
                                 o \in Opts, d \in StoreContents}] : S \in SUBSET N}
ExistingStores == StoresOver(Names)

\* the databases the view operations are explored from: at most MaxStored records in all
Stored(st) == UNION {{<<n, k>> : k \in DOMAIN st[n].data} : n \in DOMAIN st}
Small(st) == /\ Cardinality(Stored(st)) <= MaxStored
             /\ \A n \in DOMAIN st : \A k \in DOMAIN st[n].data : st[n].data[k].a = 1
SmallStores == {st \in ExistingStores : Small(st)}

\* ------------------------------------------------------------- heaps
(* Object and array identities carry no meaning beyond equality, so every  *)
(* action leaves the heaps in a canonical numbering: arrays in the order   *)
(* mi.storageData, the views and the last return value reach them, objects *)
(* in the order those arrays hold them.  What nothing refers to is dropped.*)
\* a return value or exception: its kind t, then a number, object id, array id or view
\* index in v, an error, a store name or the method that returned the view in e, the
\* object ids of a returned array in os
Ret(t, v) == [t |-> t, v |-> v, e |-> "", os |-> <<>>]
NoRet == Ret("none", 0)
RetArrays(r) == IF r.t = "array" THEN <<r.v>> ELSE <<>>
RetObjects(r) == IF r.t = "object" THEN <<r.v>> ELSE r.os

Renumber(sd, vs, ar, hp, r, arrOrder, objOrder) ==
  LET A(a) == IndexOf(arrOrder, a)
      O(o) == IndexOf(objOrder, o)
  IN [sd |-> [n \in DOMAIN sd |-> A(sd[n])],
      vs |-> [i \in DOMAIN vs |-> [vs[i] EXCEPT !.storageData = A(@)]],
      ar |-> [i \in DOMAIN arrOrder |-> [j \in DOMAIN ar[arrOrder[i]] |-> O(ar[arrOrder[i]][j])]],
      hp |-> [i \in DOMAIN objOrder |-> hp[objOrder[i]]],
      ret |-> IF r.t = "array" THEN [r EXCEPT !.v = A(@)]
              ELSE IF r.t = "object" THEN [r EXCEPT !.v = O(@)]
              ELSE [r EXCEPT !.os = [i \in DOMAIN @ |-> O(@[i])]]]

ArrOrder(sd, vs, r) ==
  Only({Dedupe([i \in DOMAIN names |-> sd[names[i]]]
               \o [i \in DOMAIN vs |-> vs[i].storageData] \o RetArrays(r)) :
        names \in {SetToSeq(DOMAIN sd)}})

ObjOrder(ar, r, arrOrder) ==
  Dedupe(Flatten([i \in DOMAIN arrOrder |-> ar[arrOrder[i]]]) \o RetObjects(r))

Canon(sd0, vs0, ar0, hp0, r0) ==
  Only({Only({Only({Renumber(x.sd, x.vs, x.ar, x.hp, x.r, arrOrder, objOrder) :
                      objOrder \in {ObjOrder(x.ar, x.r, arrOrder)}}) :
                arrOrder \in {ArrOrder(x.sd, x.vs, x.r)}}) :
          x \in {[sd |-> sd0, vs |-> vs0, ar |-> ar0, hp |-> hp0, r |-> r0]}})

Commit(sd, vs, ar, hp, r) ==
  \E c \in {Canon(sd, vs, ar, hp, r)} :
    /\ storageData' = c.sd
    /\ views' = c.vs
    /\ arrays' = c.ar
    /\ heap' = c.hp
    /\ ret' = c.ret

NewId(h) == Len(h) + 1      \* an id no array or object of the heap h carries

\* ------------------------------------------------------------- Mirror
InitWith(family) ==
  /\ storageConfig = Empty
  /\ idbConnection = "null"
  /\ storageData = Empty
  /\ request = "none"
  /\ oncomplete = FALSE
  /\ \E new \in BOOLEAN, st \in family :
        /\ new => st = Empty
        /\ db = [new |-> new, stores |-> st]
  /\ counter = 0
  /\ cursor = Empty
  /\ readyCalls = 0
  /\ arrays = <<>>
  /\ heap = <<>>
  /\ views = <<>>
  /\ pending = <<>>
  /\ ret = NoRet
  /\ nops = 0
  /\ self = Window

Init == InitWith(SmallStores)
InitSync == InitWith(ExistingStores)

\* The application declares its stores before open; for a database that exists it
\* declares the stores the database was created with (indexedDB.open is given no
\* version, so the stores of a database never change).
createStorage(name, opts) ==
  /\ request = "none"
  /\ ~db.new => name \in objectStoreNames /\ opts.keyPath = db.stores[name].keyPath
  /\ storageConfig' = Put(storageConfig, name, opts)
  /\ UNCHANGED <<idbConnection, storageData, request, oncomplete, db, counter, cursor,
                 readyCalls, arrays, heap, views, pending, ret, nops, self>>

open(onready) ==
  /\ request = "none"
  /\ ~db.new => DOMAIN storageConfig = objectStoreNames
  /\ request' = "pending"
  /\ oncomplete' = onready
  /\ self' = Mi
  /\ UNCHANGED <<storageConfig, idbConnection, storageData, db, counter, cursor,
                 readyCalls, arrays, heap, views, pending, ret, nops>>

\* request.onupgradeneeded: fires only for a database that does not exist yet
onupgradeneeded ==
  /\ request = "pending"
  /\ db.new
  /\ idbConnection' = "conn"
  /\ db' = [new |-> FALSE,
            stores |-> [n \in DOMAIN storageConfig |->
                          [keyPath |-> storageConfig[n].keyPath, data |-> Empty]]]
  /\ request' = "upgraded"
  /\ UNCHANGED <<storageConfig, storageData, oncomplete, counter, cursor,
                 readyCalls, arrays, heap, views, pending, ret, nops, self>>

\* the loop of sync: every store of the connection gets a new empty array
RECURSIVE SyncArrays(_, _, _)
SyncArrays(todo, sd, ar) ==
  IF todo = <<>> THEN [sd |-> sd, ar |-> ar]
  ELSE SyncArrays(Tail(todo), Put(sd, Head(todo), NewId(ar)), Append(ar, <<>>))

\* sync, up to the point where the cursors are open
sync ==
  LET r == SyncArrays(SetToSeq(objectStoreNames), storageData, arrays) IN
  /\ counter' = 0
  /\ cursor' = [n \in objectStoreNames |-> [pos |-> 0, done |-> FALSE]]
  /\ Commit(r.sd, views, r.ar, heap, ret)

\* request.onsuccess
onsuccess ==
  /\ \/ request = "pending" /\ ~db.new
     \/ request = "upgraded"
  /\ idbConnection' = "conn"
  /\ request' = "success"
  /\ sync
  /\ UNCHANGED <<storageConfig, oncomplete, db, readyCalls, pending, nops, self>>

\* the record a cursor yields put at the front of the array, as unshift would
PushFront(arr, o) == <<o>> \o arr
\* self.storageData[storage].push(cursor.value)
Push(arr, o) == Append(arr, o)

\* the completion test as it would be without the comparison to the number of stores
CompleteFirst(cnt) == cnt >= 1 /\ oncomplete
\* the completion test as it would be with <= in place of ==
CompleteUpTo(cnt) == cnt <= Cardinality(objectStoreNames) /\ oncomplete
\* counter == self.idbConnection.objectStoreNames.length && oncomplete, after counter++
Complete(cnt) == cnt = Cardinality(objectStoreNames) /\ oncomplete

\* trans.openCursor().onsuccess of the cursor over store n
cursorSuccess(n) ==
  /\ n \in DOMAIN cursor
  /\ ~cursor[n].done
  /\ IF cursor[n].pos < Len(CursorOrder(n))
     THEN /\ Commit(storageData, views,
                    [arrays EXCEPT ![storageData[n]] = Push(@, NewId(heap))],
                    Append(heap, CursorOrder(n)[cursor[n].pos + 1]), ret)
          /\ cursor' = [cursor EXCEPT ![n].pos = @ + 1]
          /\ UNCHANGED <<counter, readyCalls>>
     ELSE /\ counter' = counter + 1
          /\ cursor' = [cursor EXCEPT ![n].done = TRUE]
          /\ readyCalls' = IF Complete(counter + 1) THEN readyCalls + 1 ELSE readyCalls
          /\ UNCHANGED <<storageData, views, arrays, heap, ret>>
  /\ UNCHANGED <<storageConfig, idbConnection, request, oncomplete, db, pending, nops, self>>

\* the load, the application using the store names N
SyncOver(N) ==
  \/ \E name \in N, opts \in Opts : createStorage(name, opts)
  \/ \E onready \in BOOLEAN : open(onready)
  \/ onupgradeneeded
  \/ onsuccess
  \/ \E n \in N : cursorSuccess(n)
NextSync == SyncOver(Names)

\* ------------------------------------------------------------- two Mirrors
(* Two Mirror objects of one page, registry m opening database m.  Under   *)
(* TwoSpec every variable of the Mirror holds one value per registry, the  *)
(* variables of an open request and of the sync it starts one value per    *)
(* request (request m is the one registry m's open made), and db one value *)
(* per database; a collection is the sequence of its records.  self stays  *)
(* the one global variable it is.                                          *)
Registries == 1..2

\* what a cursor over the store st yields: its records in ascending key order
CursorOver(st) == [i \in 1..Cardinality(DOMAIN st.data) |->
                     st.data[SortedKeys(DOMAIN st.data)[i]]]

\* the databases the two registries are opened on: at most one record each
TwoStores == {st \in SmallStores : Cardinality(Stored(st)) <= 1}

InitTwo ==
  /\ storageConfig = [m \in Registries |-> Empty]
  /\ idbConnection = [m \in Registries |-> 0]
  /\ storageData = [m \in Registries |-> Empty]
  /\ request = [m \in Registries |-> [st |-> "none", this |-> Window]]
  /\ oncomplete = [m \in Registries |-> FALSE]
  /\ db \in [Registries -> {[new |-> new, stores |-> st] :
                              new \in BOOLEAN, st \in TwoStores}]
  /\ \A m \in Registries : db[m].new => db[m].stores = Empty
  /\ counter = [m \in Registries |-> 0]
  /\ cursor = [m \in Registries |-> Empty]
  /\ readyCalls = [m \in Registries |-> <<>>]
  /\ arrays = <<>>
  /\ heap = <<>>
  /\ views = <<>>
  /\ pending = <<>>
  /\ ret = NoRet
  /\ nops = 0
  /\ self = Window

twoUnchanged == UNCHANGED <<arrays, heap, views, pending, ret, nops>>

createStorageOn(m, name, opts) ==
  /\ request[m].st = "none"
  /\ ~db[m].new => name \in DOMAIN db[m].stores /\ opts.keyPath = db[m].stores[name].keyPath
  /\ storageConfig' = [storageConfig EXCEPT ![m] = Put(@, name, opts)]
  /\ UNCHANGED <<idbConnection, storageData, request, oncomplete, db, counter, cursor,
                 readyCalls, self>>
  /\ twoUnchanged

\* m.open(onready): the request is a variable of the call, self is not
openOn(m, onready) ==
  /\ request[m].st = "none"
  /\ ~db[m].new => DOMAIN storageConfig[m] = DOMAIN db[m].stores
  /\ request' = [request EXCEPT ![m].st = "pending"]
  /\ oncomplete' = [oncomplete EXCEPT ![m] = onready]
  /\ self' = m
  /\ UNCHANGED <<storageConfig, idbConnection, storageData, db, counter, cursor, readyCalls>>
  /\ twoUnchanged

\* the page opens both registries in one task; the events of the requests follow it
Opened == \A m \in Registries : request[m].st # "none"

\* onupgradeneeded of request r: the connection and the declarations are read through self
onupgradeneededOf(r) ==
  /\ Opened
  /\ request[r].st = "pending"
  /\ db[r].new
  /\ idbConnection' = [idbConnection EXCEPT ![self] = r]
  /\ db' = [db EXCEPT ![r] =
              [new |-> FALSE,
               stores |-> [n \in DOMAIN storageConfig[self] |->
                             [keyPath |-> storageConfig[self][n].keyPath, data |-> Empty]]]]
  /\ request' = [request EXCEPT ![r].st = "upgraded"]
  /\ UNCHANGED <<storageConfig, storageData, oncomplete, counter, cursor, readyCalls, self>>
  /\ twoUnchanged

\* onsuccess of request r: self.idbConnection = request.result; self.sync(onready).
\* sync runs on the registry self names, over the stores of the connection just
\* assigned, and its closures keep that registry
onsuccessOf(r) ==
  /\ Opened
  /\ \/ request[r].st = "pending" /\ ~db[r].new
     \/ request[r].st = "upgraded"
  /\ idbConnection' = [idbConnection EXCEPT ![self] = r]
  /\ request' = [request EXCEPT ![r] = [st |-> "success", this |-> self]]
  /\ storageData' = [storageData EXCEPT ![self] =
                       [n \in DOMAIN @ \cup DOMAIN db[r].stores |->
                          IF n \in DOMAIN db[r].stores THEN <<>> ELSE @[n]]]
  /\ counter' = [counter EXCEPT ![r] = 0]
  /\ cursor' = [cursor EXCEPT ![r] = [n \in DOMAIN db[r].stores |-> [pos |-> 0, done |-> FALSE]]]
  /\ UNCHANGED <<storageConfig, oncomplete, db, readyCalls, self>>
  /\ twoUnchanged

\* counter == self.idbConnection.objectStoreNames.length && oncomplete in the sync that
\* request r started: self is the registry that sync runs on, its connection the one
\* it holds when the cursor reports
CompleteOf(r, cnt) ==
  /\ cnt = Cardinality(DOMAIN db[idbConnection[request[r].this]].stores)
  /\ oncomplete[r]

\* trans.openCursor().onsuccess of the cursor the sync of request r opened over store n
cursorSuccessOf(r, n) ==
  /\ n \in DOMAIN cursor[r]
  /\ ~cursor[r][n].done
  /\ IF cursor[r][n].pos < Len(CursorOver(db[r].stores[n]))
     THEN /\ storageData' = [storageData EXCEPT ![request[r].this][n] =
                               Push(@, CursorOver(db[r].stores[n])[cursor[r][n].pos + 1])]
          /\ cursor' = [cursor EXCEPT ![r][n].pos = @ + 1]
          /\ UNCHANGED <<counter, readyCalls>>
     ELSE /\ counter' = [counter EXCEPT ![r] = @ + 1]
          /\ cursor' = [cursor EXCEPT ![r][n].done = TRUE]
          /\ readyCalls' = IF CompleteOf(r, counter[r] + 1)
                           THEN [readyCalls EXCEPT ![r] = Append(@, request[r].this)]
                           ELSE readyCalls
          /\ UNCHANGED storageData
  /\ UNCHANGED <<storageConfig, idbConnection, request, oncomplete, db, self>>
  /\ twoUnchanged

NextTwo ==
  \/ \E m \in Registries, name \in Names, opts \in Opts : createStorageOn(m, name, opts)
  \/ \E m \in Registries, onready \in BOOLEAN : openOn(m, onready)
  \/ \E r \in Registries : onupgradeneededOf(r)
  \/ \E r \in Registries : onsuccessOf(r)
  \/ \E r \in Registries, n \in Names : cursorSuccessOf(r, n)

TwoSpec == InitTwo /\ [][NextTwo]_vars

\* ------------------------------------------------------------- the database's writes
\* the database applies the oldest write request it was handed
ApplyWrite(st, w) ==
  IF w.op = "add"
  THEN IF w.val[st.keyPath] \in DOMAIN st.data
       THEN st                                           \* ConstraintError, request fails
       ELSE [st EXCEPT !.data = Put(@, w.val[st.keyPath], w.val)]
  ELSE IF w.op = "put" THEN [st EXCEPT !.data = Put(@, w.val[st.keyPath], w.val)]
  ELSE IF w.op = "delete" THEN [st EXCEPT !.data = [k \in DOMAIN @ \ {w.val} |-> @[k]]]
  ELSE [st EXCEPT !.data = Empty]                        \* clear

storeApply ==
  /\ pending # <<>>
  /\ ret.t # "hang"                  \* no event is delivered while a call holds the thread
  /\ db' = [db EXCEPT !.stores[Head(pending).store] = ApplyWrite(@, Head(pending))]
  /\ pending' = Tail(pending)
  /\ UNCHANGED <<storageConfig, idbConnection, storageData, request, oncomplete, counter,
                 cursor, readyCalls, arrays, heap, views, ret, nops, self>>

\* ------------------------------------------------------------- Mirror.Storage
\* select and innerjoin, as the code would be with the line ret.insert = undefined left out
DisabledButInsert == {"getTransaction", "truncate", "get", "getIndex", "delete", "update"}
\* the methods select and innerjoin set to undefined on their result
DisabledFunctions == {"getTransaction", "truncate", "insert", "get", "getIndex", "delete", "update"}
Methods == DisabledFunctions \cup {"fetchall", "match", "select", "innerjoin", "count"}
TMPSTORAGE == "TMPSTORAGE"
NotFound == -1                      \* the false that getIndex returns; positions count from 0

Throw(e) == [Ret("throw", 0) EXCEPT !.e = e]
\* a call that never returns: the one thread of the page is held by it
Hang(method) == [Ret("hang", 0) EXCEPT !.e = method]
Running == ret.t # "hang"
Undefined == Ret("undefined", 0)
False == Ret("false", 0)

\* the application calls views only once onready has told it the mirror is loaded
Usable(v, m) == /\ readyCalls > 0
                /\ Running
                /\ nops < MaxOps
                /\ v \in DOMAIN views
                /\ m \notin views[v].disabled
mirrorUnchanged == UNCHANGED <<storageConfig, idbConnection, request, oncomplete,
                               counter, cursor, readyCalls, self>>

\* new Mirror.Storage(mi, name): this.storageData = mi.storageData[name] || []
Storage(name, sd, ar) ==
  IF name \in DOMAIN sd THEN [arr |-> sd[name], ar |-> ar]
  ELSE [arr |-> NewId(ar), ar |-> Append(ar, <<>>)]

with(name) ==
  /\ readyCalls > 0
  /\ Running
  /\ nops < MaxOps
  /\ nops' = nops + 1
  /\ LET s == Storage(name, storageData, arrays) IN
     Commit(storageData,
            Append(views, [idbStorageName |-> name, storageData |-> s.arr, disabled |-> {}]),
            s.ar, heap, [Ret("view", Len(views) + 1) EXCEPT !.e = "with"])
  /\ UNCHANGED <<db, pending>>
  /\ mirrorUnchanged

\* getTransaction throws NotFoundError when the connection has no such store
HasStore(v) == views[v].idbStorageName \in objectStoreNames
KeyPathOf(v) == db.stores[views[v].idbStorageName].keyPath

\* a method that select or innerjoin set to undefined: the call is a TypeError
callUndefined(v, m) ==
  /\ readyCalls > 0
  /\ Running
  /\ v \in DOMAIN views
  /\ m \in views[v].disabled
  /\ Commit(storageData, views, arrays, heap, Throw("TypeError"))
  /\ UNCHANGED <<db, pending, nops>>
  /\ mirrorUnchanged

getTransaction(v) ==
  /\ nops' = nops + 1
  /\ Usable(v, "getTransaction")
  /\ Commit(storageData, views, arrays, heap,
            IF HasStore(v) THEN [Ret("store", 0) EXCEPT !.e = views[v].idbStorageName]
            ELSE Throw("NotFoundError"))
  /\ UNCHANGED <<db, pending>>
  /\ mirrorUnchanged

truncate(v) ==
  /\ Usable(v, "truncate")
  /\ nops' = nops + 1
  /\ Commit(Put(storageData, views[v].idbStorageName, NewId(arrays)), views,
            Append(arrays, <<>>), heap,
            IF HasStore(v) THEN Undefined ELSE Throw("NotFoundError"))
  /\ pending' = IF HasStore(v)
                THEN Append(pending, [op |-> "clear", store |-> views[v].idbStorageName, val |-> 0])
                ELSE pending
  /\ UNCHANGED db
  /\ mirrorUnchanged

insert(v, o) ==
  /\ Usable(v, "insert")
  /\ nops' = nops + 1
  /\ Commit(storageData, views,
            [arrays EXCEPT ![views[v].storageData] = Append(@, NewId(heap))],
            Append(heap, o),
            IF HasStore(v) THEN Ret("object", NewId(heap)) ELSE Throw("NotFoundError"))
  /\ pending' = IF HasStore(v)
                THEN Append(pending, [op |-> "add", store |-> views[v].idbStorageName, val |-> o])
                ELSE pending
  /\ UNCHANGED db
  /\ mirrorUnchanged

fetchall(v) ==
  /\ nops' = nops + 1
  /\ Usable(v, "fetchall")
  /\ Commit(storageData, views, arrays, heap, Ret("array", views[v].storageData))
  /\ UNCHANGED <<db, pending>>
  /\ mirrorUnchanged

count(v) ==
  /\ nops' = nops + 1
  /\ Usable(v, "count")
  /\ Commit(storageData, views, arrays, heap,
            Ret("number", Len(arrays[views[v].storageData])))
  /\ UNCHANGED <<db, pending>>
  /\ mirrorUnchanged

\* record[field] == value; a field the record lacks is undefined and equals no value
FieldIs(rec, f, val) == f \in DOMAIN rec /\ rec[f] = val

\* the scan of getIndex over the array arr (object ids) in the heap hp
IndexIn(arr, hp, keyPath, key) ==
  IF \E i \in DOMAIN arr : FieldIs(hp[arr[i]], keyPath, key)
  THEN MinOf({i \in DOMAIN arr : FieldIs(hp[arr[i]], keyPath, key)}) - 1
  ELSE NotFound

IndexOfKey(v, key) == IndexIn(arrays[views[v].storageData], heap, KeyPathOf(v), key)

getIndex(v, key) ==
  /\ nops' = nops + 1
  /\ Usable(v, "getIndex")
  /\ Commit(storageData, views, arrays, heap,
            IF ~HasStore(v) THEN Throw("NotFoundError")
            ELSE IF IndexOfKey(v, key) = NotFound THEN False
            ELSE Ret("number", IndexOfKey(v, key)))
  /\ UNCHANGED <<db, pending>>
  /\ mirrorUnchanged

\* get as it would be with if(index) in place of if(index !== false)
GetResultTruthy(v, key) ==
  IF IndexOfKey(v, key) # NotFound /\ IndexOfKey(v, key) # 0
  THEN Ret("object", arrays[views[v].storageData][IndexOfKey(v, key) + 1])
  ELSE False
\* what get returns on a view of an existing store
GetResult(v, key) ==
  IF IndexOfKey(v, key) # NotFound
  THEN Ret("object", arrays[views[v].storageData][IndexOfKey(v, key) + 1])
  ELSE False

get(v, key) ==
  /\ nops' = nops + 1
  /\ Usable(v, "get")
  /\ Commit(storageData, views, arrays, heap,
            IF ~HasStore(v) THEN Throw("NotFoundError") ELSE GetResult(v, key))
  /\ UNCHANGED <<db, pending>>
  /\ mirrorUnchanged

\* storageData.splice(index, 1), index counted from 0
Splice(arr, index) == SubSeq(arr, 1, index) \o SubSeq(arr, index + 2, Len(arr))

delete(v, key) ==
  /\ Usable(v, "delete")
  /\ nops' = nops + 1
  /\ IF ~HasStore(v)
     THEN /\ Commit(storageData, views, arrays, heap, Throw("NotFoundError"))
          /\ UNCHANGED pending
     ELSE IF IndexOfKey(v, key) # NotFound
     THEN /\ Commit(storageData, views,
                    [arrays EXCEPT ![views[v].storageData] = Splice(@, IndexOfKey(v, key))],
                    heap, GetResult(v, key))
          /\ pending' = Append(pending, [op |-> "delete", store |-> views[v].idbStorageName,
                                         val |-> key])
     ELSE /\ Commit(storageData, views, arrays, heap, False)
          /\ UNCHANGED pending
  /\ UNCHANGED db
  /\ mirrorUnchanged

\* for(i...) obj[changes[i].key] = changes[i].value
RECURSIVE ApplyChanges(_, _)
ApplyChanges(rec, changes) ==
  IF changes = <<>> THEN rec
  ELSE ApplyChanges(Put(rec, Head(changes).key, Head(changes).value), Tail(changes))

\* this.storageData[this.getIndex(key)] = obj, the index looked up after the changes;
\* an index of false names a property of the array, not an element
WriteBack(arr, hp, keyPath, key, o) ==
  IF IndexIn(arr, hp, keyPath, key) = NotFound THEN arr
  ELSE [arr EXCEPT ![IndexIn(arr, hp, keyPath, key) + 1] = o]

\* update of a key no record has, as it would be if the changes were put as a new record
MissingKeyUpsert(v, key, changes) ==
  [ret |-> Undefined,
   writes |-> Append(pending, [op |-> "put", store |-> views[v].idbStorageName,
                               val |-> ApplyChanges(Put(Empty, KeyPathOf(v), key), changes)])]
\* update of a key no record has: obj is false, the assignments to it are lost,
\* storageData[false] = false sets a property of the array and no element, and
\* put(false) throws DataError before any request is made
MissingKey(v, key, changes) == [ret |-> Throw("DataError"), writes |-> pending]

update(v, key, changes) ==
  /\ Usable(v, "update")
  /\ nops' = nops + 1
  /\ IF ~HasStore(v)
     THEN /\ Commit(storageData, views, arrays, heap, Throw("NotFoundError"))
          /\ UNCHANGED pending
     ELSE IF IndexOfKey(v, key) = NotFound
     THEN /\ Commit(storageData, views, arrays, heap, MissingKey(v, key, changes).ret)
          /\ pending' = MissingKey(v, key, changes).writes
     ELSE LET a == views[v].storageData
              o == arrays[a][IndexOfKey(v, key) + 1]
              hp == [heap EXCEPT ![o] = ApplyChanges(@, changes)]
          IN /\ Commit(storageData, views,
                       [arrays EXCEPT ![a] = WriteBack(@, hp, KeyPathOf(v), key, o)],
                       hp, Undefined)
             /\ pending' = Append(pending, [op |-> "put", store |-> views[v].idbStorageName,
                                            val |-> hp[o]])
  /\ UNCHANGED db
  /\ mirrorUnchanged

ChangeSeqs == UNION {[1..n -> {[key |-> f, value |-> x] : f \in Fields, x \in Keys \cup Vals}] :
                     n \in 0..MaxChanges}
Changes == {c \in ChangeSeqs : \A i \in DOMAIN c : c[i].value \in FieldVals(c[i].key)}

\* ------------------------------------------------------------- queries
\* JavaScript values as match sees them: a number n or a text s (a sequence of
\* one-character strings); a field a record lacks is undefined
Num(n) == [str |-> FALSE, n |-> n, s |-> <<>>]
Str(s) == [str |-> TRUE, n |-> 0, s |-> s]
\* a record of numbers as a record of JavaScript values
Lift(rec) == [f \in DOMAIN rec |-> Num(rec[f])]

\* hay.indexOf(needle) > -1 on two texts
Contains(hay, needle) ==
  \E i \in 0..(Len(hay) - Len(needle)) : SubSeq(hay, i + 1, i + Len(needle)) = needle

\* Number(s) of a text of decimal digits (the empty text is 0); any other text is NaN
Digits == {"1"}
IsNumeric(s) == \A i \in DOMAIN s : s[i] \in Digits
RECURSIVE NumberOf(_)
NumberOf(s) == IF s = <<>> THEN 0 ELSE 10 * NumberOf(SubSeq(s, 1, Len(s) - 1)) + 1

\* a == b of JavaScript on numbers and texts: a text is converted to a number when
\* the other side is a number, and NaN equals nothing
LooseEq(a, b) ==
  IF a.str = b.str THEN a = b
  ELSE IF a.str THEN IsNumeric(a.s) /\ NumberOf(a.s) = b.n
  ELSE IsNumeric(b.s) /\ NumberOf(b.s) = a.n

\* the test of one record in the loop of match; with a text as filter.value the call
\* of indexOf on a field that is undefined or a number is a TypeError
MatchThrows(rec, filter) ==
  filter.value.str /\ (filter.key \notin DOMAIN rec \/ ~rec[filter.key].str)
MatchHit(rec, filter) ==
  IF filter.value.str
  THEN Contains(rec[filter.key].s, filter.value.s)
  ELSE filter.key \in DOMAIN rec /\ LooseEq(rec[filter.key], filter.value)

\* match on the array arr whose records (as JavaScript values) are recs
MatchResult(arr, recs, filter) ==
  IF Len(arr) > 0
  THEN IF \E i \in DOMAIN recs : MatchThrows(recs[i], filter)
       THEN Throw("TypeError")
       ELSE [Ret("objects", 0) EXCEPT
               !.os = LET hits == SelectSeq([i \in DOMAIN arr |-> i],
                                            LAMBDA i : MatchHit(recs[i], filter))
                      IN [k \in DOMAIN hits |-> arr[hits[k]]]]
  ELSE False

\* match on a view whose records hold numbers, the filter's value a number
match(v, filter) ==
  /\ nops' = nops + 1
  /\ Usable(v, "match")
  /\ LET arr == arrays[views[v].storageData]
     IN Commit(storageData, views, arrays, heap,
               MatchResult(arr, [i \in DOMAIN arr |-> Lift(heap[arr[i]])],
                           [key |-> filter.key, value |-> Num(filter.value)]))
  /\ UNCHANGED <<db, pending>>
  /\ mirrorUnchanged

\* match on a view whose records hold numbers and texts, the filter's value either
matchTyped(v, filter) ==
  /\ nops' = nops + 1
  /\ Usable(v, "match")
  /\ LET arr == arrays[views[v].storageData]
     IN Commit(storageData, views, arrays, heap,
               MatchResult(arr, [i \in DOMAIN arr |-> heap[arr[i]]], filter))
  /\ UNCHANGED <<db, pending>>
  /\ mirrorUnchanged

\* the name a field of a record of storage name gets in a derived record
Prefixed(name, key) == IF name = TMPSTORAGE THEN key ELSE name \o "." \o key

\* tmpo of select: the listed fields the record has, renamed
Project(rec, name, fields) ==
  [p \in {Prefixed(name, k) : k \in DOMAIN rec \cap fields} |->
     rec[CHOOSE k \in DOMAIN rec \cap fields : Prefixed(name, k) = p]]

\* tmpo of innerjoin: the left record's fields, then the right record's over them
Merge(l, lname, r, rname) ==
  [p \in {Prefixed(lname, k) : k \in DOMAIN l} \cup {Prefixed(rname, k) : k \in DOMAIN r} |->
     IF p \in {Prefixed(rname, k) : k \in DOMAIN r}
     THEN r[CHOOSE k \in DOMAIN r : Prefixed(rname, k) = p]
     ELSE l[CHOOSE k \in DOMAIN l : Prefixed(lname, k) = p]]

\* left[on] == right[equals]; two missing fields are both undefined, and equal
JoinEq(l, on, r, equals) ==
  IF on \in DOMAIN l /\ equals \in DOMAIN r THEN l[on] = r[equals]
  ELSE on \notin DOMAIN l /\ equals \notin DOMAIN r

\* The loops of select and innerjoin read this.storageData (and ij.storageData) by index
\* while they push onto ret.storageData.  ret is new Mirror.Storage(mi, 'TMPSTORAGE'): when
\* mi.storageData holds an entry TMPSTORAGE, ret shares that array, and a source that is
\* the same array grows under the loop.  A loop that has pushed more than MaxLoop records
\* onto its own source is taken not to end.

\* the records select pushes: src the records of the source array at the start, pushed
\* those pushed so far, i the index (from 1) of the next record, grows whether the
\* source array is the array of ret
RECURSIVE SelectLoop(_, _, _, _, _, _)
SelectLoop(i, src, pushed, name, fields, grows) ==
  IF grows /\ Len(pushed) > MaxLoop THEN pushed
  ELSE IF i > Len(src) + (IF grows THEN Len(pushed) ELSE 0) THEN pushed
  ELSE LET rec == IF i <= Len(src) THEN src[i] ELSE pushed[i - Len(src)]
           tmpo == Project(rec, name, fields)
       IN SelectLoop(i + 1, src, IF tmpo # Empty THEN Append(pushed, tmpo) ELSE pushed,
                     name, fields, grows)
Selected(src, name, fields, grows) == SelectLoop(1, src, <<>>, name, fields, grows)

\* the records innerjoin pushes: left array outside, right array inside; c holds the
\* records l and r of the two arrays at the start, their storage names, the filter and
\* whether each array is the array of ret
RECURSIVE JoinLoop(_, _, _, _)
JoinLoop(i, j, pushed, c) ==
  IF (c.lgrows \/ c.rgrows) /\ Len(pushed) > MaxLoop THEN pushed
  ELSE IF i > Len(c.l) + (IF c.lgrows THEN Len(pushed) ELSE 0) THEN pushed
  ELSE IF j > Len(c.r) + (IF c.rgrows THEN Len(pushed) ELSE 0) THEN JoinLoop(i + 1, 1, pushed, c)
  ELSE LET lrec == IF i <= Len(c.l) THEN c.l[i] ELSE pushed[i - Len(c.l)]
           rrec == IF j <= Len(c.r) THEN c.r[j] ELSE pushed[j - Len(c.r)]
       IN JoinLoop(i, j + 1,
                   IF JoinEq(lrec, c.filter.on, rrec, c.filter.equals)
                   THEN Append(pushed, Merge(lrec, c.lname, rrec, c.rname))
                   ELSE pushed,
                   c)
Joined(l, lname, lgrows, r, rname, rgrows, filter) ==
  JoinLoop(1, 1, <<>>, [l |-> l, lname |-> lname, lgrows |-> lgrows,
                        r |-> r, rname |-> rname, rgrows |-> rgrows, filter |-> filter])

\* the records of the array a of the array heap ar
RecordsOf(ar, a) == [i \in DOMAIN ar[a] |-> heap[ar[a][i]]]

\* ret = new Mirror.Storage(mi, 'TMPSTORAGE') with the records recs pushed, its seven
\* methods undefined; a loop that does not end (grows: it fed on the array of ret)
\* leaves the call hanging
Derive(method, ar0, recs, grows) ==
  IF grows /\ Len(recs) > MaxLoop
  THEN Commit(storageData, views, arrays, heap, Hang(method))
  ELSE LET s == Storage(TMPSTORAGE, storageData, ar0)
           ids == [i \in DOMAIN recs |-> Len(heap) + i]
       IN Commit(storageData,
                 Append(views, [idbStorageName |-> TMPSTORAGE, storageData |-> s.arr,
                                disabled |-> DisabledFunctions]),
                 [s.ar EXCEPT ![s.arr] = @ \o ids], heap \o recs,
                 [Ret("view", Len(views) + 1) EXCEPT !.e = method])

\* whether the array a is the one new Mirror.Storage(mi, 'TMPSTORAGE') takes from mi
IsRetArray(a) == TMPSTORAGE \in DOMAIN storageData /\ storageData[TMPSTORAGE] = a

select(v, fields) ==
  /\ nops' = nops + 1
  /\ Usable(v, "select")
  /\ \E recs \in {Selected(RecordsOf(arrays, views[v].storageData), views[v].idbStorageName,
                           fields, IsRetArray(views[v].storageData))} :
       Derive("select", arrays, recs, IsRetArray(views[v].storageData))
  /\ UNCHANGED <<db, pending>>
  /\ mirrorUnchanged

innerjoin(v, secondStorage, filter) ==
  /\ nops' = nops + 1
  /\ Usable(v, "innerjoin")
  /\ \E ij \in {Storage(secondStorage, storageData, arrays)} :
     \E recs \in {Joined(RecordsOf(arrays, views[v].storageData), views[v].idbStorageName,
                         IsRetArray(views[v].storageData),
                         RecordsOf(ij.ar, ij.arr), secondStorage, IsRetArray(ij.arr),
                         filter)} :
       Derive("innerjoin", ij.ar, recs, IsRetArray(views[v].storageData) \/ IsRetArray(ij.arr))
  /\ UNCHANGED <<db, pending>>
  /\ mirrorUnchanged

QFields == Fields \cup {n \o "." \o f : n \in Names, f \in Fields}
FieldLists == {{f} : f \in QFields} \cup {Fields}
Filters == {[key |-> f, value |-> x] : f \in QFields, x \in Keys \cup Vals}
JoinFilters == {[on |-> f, equals |-> g] : f \in QFields, g \in QFields}

\* the queries, the application using the store names N
QueryOver(N) ==
  \/ \E v \in 1..MaxOps, filter \in Filters : match(v, filter)
  \/ \E v \in 1..MaxOps, fields \in FieldLists : select(v, fields)
  \/ \E v \in 1..MaxOps, n \in N, filter \in JoinFilters : innerjoin(v, n, filter)
NextQuery == QueryOver(Names)

\* the other calls on views and the database's writes, the application using the names N
ViewOver(N) ==
  \/ \E name \in N : with(name)
  \/ \E v \in 1..MaxOps, m \in DisabledFunctions : callUndefined(v, m)
  \/ \E v \in 1..MaxOps : getTransaction(v)
  \/ \E v \in 1..MaxOps : truncate(v)
  \/ \E v \in 1..MaxOps, o \in Records : insert(v, o)
  \/ \E v \in 1..MaxOps : fetchall(v)
  \/ \E v \in 1..MaxOps : count(v)
  \/ \E v \in 1..MaxOps, key \in Keys : getIndex(v, key)
  \/ \E v \in 1..MaxOps, key \in Keys : get(v, key)
  \/ \E v \in 1..MaxOps, key \in Keys : delete(v, key)
  \/ \E v \in 1..MaxOps, key \in Keys, changes \in Changes : update(v, key, changes)
  \/ storeApply
NextView == ViewOver(Names)

Next == NextSync \/ NextView \/ NextQuery

Spec == Init /\ [][Next]_vars

\* the load alone, from every database within the bounds
SyncSpec == InitSync /\ [][NextSync]_vars

\* the events of a request and of a cursor are delivered; the application's calls need not come
FairSyncSpec == /\ SyncSpec
                /\ WF_vars(onupgradeneeded)
                /\ WF_vars(onsuccess)
                /\ \A n \in Names : WF_vars(cursorSuccess(n))

\* ------------------------------------------------------------- a store named TMPSTORAGE
\* the application that names one of its stores as select and innerjoin name their result
ReservedNames == {"X", TMPSTORAGE}
InitReserved == InitWith({st \in StoresOver(ReservedNames) : Small(st)})
NextReserved == SyncOver(ReservedNames) \/ ViewOver(ReservedNames) \/ QueryOver(ReservedNames)
ReservedSpec == InitReserved /\ [][NextReserved]_vars

\* ------------------------------------------------------------- match on texts
\* the values match is explored on: the numbers from 0 and the texts over a digit and a letter
Alphabet == {"1", "a"}
Texts == UNION {[1..n -> Alphabet] : n \in 0..MaxText}
TypedVals == {Num(n) : n \in 0..MaxVal} \cup {Str(t) : t \in Texts}
\* a record with key k whose field a holds x, and one that has no field a
WithA(k, x) == [f \in Fields |-> IF f = KeyField THEN Num(k) ELSE x]
WithoutA(k) == [f \in {KeyField} |-> Num(k)]
TypedContents == UNION {{c \in [1..n -> {WithA(1, x) : x \in TypedVals} \cup {WithoutA(1)}] : TRUE} :
                        n \in 0..MaxMatch}
\* the i-th record carries key i
Keyed(c) == [i \in DOMAIN c |-> [c[i] EXCEPT ![KeyField] = Num(i)]]
TypedFilters == {[key |-> f, value |-> x] : f \in Fields, x \in TypedVals}

\* a mirror loaded from a database whose one store X holds the records recs, and one view of X
InitMatch ==
  \E c \in TypedContents :
    /\ storageConfig = [n \in {"X"} |-> [keyPath |-> KeyField]]
    /\ idbConnection = "conn"
    /\ storageData = [n \in {"X"} |-> 1]
    /\ request = "success"
    /\ oncomplete = TRUE
    /\ db = [new |-> FALSE,
             stores |-> [n \in {"X"} |-> [keyPath |-> KeyField, data |-> Keyed(c)]]]
    /\ counter = 1
    /\ cursor = [n \in {"X"} |-> [pos |-> Len(c), done |-> TRUE]]
    /\ readyCalls = 1
    /\ arrays = <<[i \in DOMAIN c |-> i]>>
    /\ heap = Keyed(c)
    /\ views = <<[idbStorageName |-> "X", storageData |-> 1, disabled |-> {}]>>
    /\ pending = <<>>
    /\ ret = NoRet
    /\ nops = 0
    /\ self = Mi

NextMatch == \E v \in 1..MaxOps, filter \in TypedFilters : matchTyped(v, filter)

MatchSpec == InitMatch /\ [][NextMatch]_vars

\* ------------------------------------------------------------- properties
\* the records of an array, by value
Contents(a) == [i \in DOMAIN arrays[a] |-> heap[arrays[a][i]]]
\* the in-memory sequence of collection n
MemOf(n) == Contents(storageData[n])
Exhausted(n) == n \in DOMAIN cursor /\ cursor[n].done

\* C1: onReady has run only if the cursor of every collection of the store has
\* reported exhaustion, and then every in-memory sequence holds as many records as
\* its collection has persisted.
C1_ReadyOnlyAfterAllExhausted ==
  readyCalls > 0 =>
    \A n \in objectStoreNames :
      /\ Exhausted(n)
      /\ cursor[n].pos = Cardinality(DOMAIN db.stores[n].data)
      /\ Len(MemOf(n)) = Cardinality(DOMAIN db.stores[n].data)

\* onReady has run for a store of two collections, one of them empty, one with two records
C1_Witness ==
  /\ readyCalls > 0
  /\ \E n, m \in objectStoreNames :
        /\ n # m
        /\ Cardinality(DOMAIN db.stores[n].data) = 0
        /\ Cardinality(DOMAIN db.stores[m].data) >= 2

\* the store opened has, or is created with, at least one collection
WillHaveStores == IF db.new THEN DOMAIN storageConfig # {} ELSE objectStoreNames # {}
\* C2: open with a callback on a store that has (or is created with) at least one
\* collection leads, once the cursors are exhausted, to the callback having run exactly
\* once, and it never runs a second time.
C2_ReadyExactlyOnce ==
  /\ [](readyCalls <= 1)
  /\ (request # "none" /\ oncomplete /\ WillHaveStores) ~> [](readyCalls = 1)

\* onReady has run once although the last cursor to finish was that of an empty collection
\* and the other collection holds records
C2_Witness ==
  /\ readyCalls = 1
  /\ Cardinality(objectStoreNames) = 2
  /\ \E n \in objectStoreNames : DOMAIN db.stores[n].data = {}
  /\ \E n \in objectStoreNames : DOMAIN db.stores[n].data # {}

\* C3: when the opened store has no collection, onReady has fired by the time the
\* open has succeeded and nothing of the load is left to happen.
C3_ZeroCollectionsReady ==
  (request = "success" /\ oncomplete /\ objectStoreNames = {} /\ ~ENABLED NextSync)
    => readyCalls > 0

\* C4: when onReady has fired and no call was made on a view, every collection's
\* in-memory sequence equals the persisted records in cursor order.
C4_LoadedCopy ==
  (readyCalls > 0 /\ nops = 0) =>
    \A n \in objectStoreNames : MemOf(n) = CursorOrder(n)

\* onReady has fired with a collection of two or more records loaded
C4_Witness ==
  /\ readyCalls > 0
  /\ nops = 0
  /\ \E n \in objectStoreNames : Len(MemOf(n)) >= 2 /\ MemOf(n) = CursorOrder(n)

\* the records a view holds, by value, and the records its collection has persisted
IsDerived(v) == views[v].disabled # {}
ViewData(v) == Contents(views[v].storageData)
Persisted(n) == {db.stores[n].data[k] : k \in DOMAIN db.stores[n].data}

\* C5: once every write issued to the store has been applied, the records a view of a
\* synced collection holds in memory are exactly the records the collection has persisted.
C5_MemoryEqualsStore ==
  \A v \in DOMAIN views :
    (~IsDerived(v) /\ HasStore(v) /\ pending = <<>>) =>
      /\ Range(ViewData(v)) = Persisted(views[v].idbStorageName)
      /\ Len(ViewData(v)) = Cardinality(Persisted(views[v].idbStorageName))

\* C6: right after insert(r) on a view, get(keyOf(r)) on that view returns r itself,
\* the object insert returned.
C6_GetAfterInsert ==
  [][\A v \in DOMAIN views, o \in Records :
       (insert(v, o) /\ HasStore(v)) => GetResult(v, o[KeyPathOf(v)])' = ret']_vars

\* C7: right after delete(k) on a view, get(k) on that view returns not-found, and a
\* record that was found is gone from the view's sequence, which is one shorter.
C7_DeleteThenGet ==
  [][\A v \in DOMAIN views, k \in Keys :
       (delete(v, k) /\ HasStore(v)) =>
         /\ GetResult(v, k)' = False
         /\ IndexOfKey(v, k) # NotFound =>
              /\ Len(ViewData(v)') = Len(ViewData(v)) - 1
              /\ ret'.t = "object"
              /\ ret'.v \notin Range(arrays'[views'[v].storageData])]_vars

\* C8: right after truncate() on a view, count() on that view is 0 and fetchall() on
\* that view is the empty sequence.
C8_TruncateEmpties ==
  [][\A v \in DOMAIN views :
       (truncate(v) /\ HasStore(v)) => ViewData(v)' = <<>>]_vars

\* the record rec with every field a change names set to the value of the last such change
LastChange(changes, f) ==
  changes[CHOOSE i \in DOMAIN changes :
            /\ changes[i].key = f
            /\ \A j \in DOMAIN changes : changes[j].key = f => j <= i].value
Updated(rec, changes) ==
  [f \in DOMAIN rec \cup {changes[i].key : i \in DOMAIN changes} |->
     IF \E i \in DOMAIN changes : changes[i].key = f THEN LastChange(changes, f) ELSE rec[f]]

\* C9: update(k, changes) on a key that exists changes the first record with key k to
\* carry the last value of every field the changes name, in place, and leaves the
\* number of records and every other record as they were.
C9_UpdateFrame ==
  [][\A v \in DOMAIN views, k \in Keys, ch \in Changes :
       (update(v, k, ch) /\ HasStore(v) /\ IndexOfKey(v, k) # NotFound) =>
         /\ Len(ViewData(v)') = Len(ViewData(v))
         /\ \A j \in DOMAIN ViewData(v) :
              ViewData(v)'[j] = IF j = IndexOfKey(v, k) + 1
                                THEN Updated(ViewData(v)[j], ch)
                                ELSE ViewData(v)[j]]_vars

\* the methods the claim names as refused and as offered on a derived result
C10_Refused == {"insert", "update", "delete", "get", "getIndex", "truncate", "getTransaction"}
C10_Offered == {"fetchall", "match", "select", "innerjoin", "count"}
\* a step leaves the store, its pending writes and every sequence in memory as they were
C10_DataUnchanged ==
  /\ UNCHANGED <<db, pending>>
  /\ DOMAIN storageData' = DOMAIN storageData
  /\ \A n \in DOMAIN storageData : MemOf(n)' = MemOf(n)
  /\ Len(views') = Len(views)
  /\ \A w \in DOMAIN views : ViewData(w)' = ViewData(w)
\* every refused method can be called (and throws), every offered method can be called
C10_Callable(v) ==
  /\ \A m \in C10_Refused : ENABLED callUndefined(v, m)
  /\ nops < MaxOps =>
       /\ ENABLED fetchall(v)
       /\ ENABLED count(v)
       /\ ENABLED (\E filter \in Filters : match(v, filter))
       /\ ENABLED (\E fields \in FieldLists : select(v, fields))
       /\ ENABLED (\E n \in Names, filter \in JoinFilters : innerjoin(v, n, filter))
\* C10: on a result of select or innerjoin the calls of insert, update, delete, get,
\* getIndex, truncate and getTransaction are errors: none of them ever runs, the call
\* throws and leaves the result's sequence, every collection's in-memory sequence and
\* the store as they were; fetchall, match, select, innerjoin and count stay callable.
C10_DerivedRestricted ==
  /\ [](\A v \in DOMAIN views : IsDerived(v) => C10_Callable(v))
  /\ [][\A v \in DOMAIN views : IsDerived(v) =>
          /\ \A o \in Records : ~insert(v, o)
          /\ \A k \in Keys, ch \in Changes : ~update(v, k, ch)
          /\ \A k \in Keys : ~delete(v, k) /\ ~get(v, k) /\ ~getIndex(v, k)
          /\ ~truncate(v) /\ ~getTransaction(v)
          /\ \A m \in C10_Refused :
               callUndefined(v, m) => ret'.t = "throw" /\ C10_DataUnchanged
          /\ \A m \in C10_Offered : ~callUndefined(v, m)]_vars

\* a refused call has thrown on a result of select that was itself taken from a result
C10_Witness ==
  /\ ret.t = "throw"
  /\ ret.e = "TypeError"
  /\ \E v, w \in DOMAIN views :
       /\ v < w
       /\ IsDerived(v) /\ IsDerived(w)
       /\ ViewData(w) # <<>>
\* the records match is to return: those whose field f is a text containing v when v is
\* a text, those whose field f is the number v when v is a number, in collection order
MatchWanted(rec, filter) ==
  /\ filter.key \in DOMAIN rec
  /\ IF filter.value.str
     THEN rec[filter.key].str /\ Contains(rec[filter.key].s, filter.value.s)
     ELSE rec[filter.key] = filter.value
MatchExpected(v, filter) ==
  SelectSeq(arrays[views[v].storageData], LAMBDA o : MatchWanted(heap[o], filter))

\* C11: on a non-empty collection match returns, in collection order, exactly the records
\* whose field f equals v when v is a number, and exactly those whose field f contains v
\* when v is a text.
C11_MatchExact ==
  [][\A v \in DOMAIN views, filter \in TypedFilters :
       (matchTyped(v, filter) /\ Len(arrays[views[v].storageData]) > 0) =>
         /\ ret'.t = "objects"
         /\ ret'.os = MatchExpected(v, filter)']_vars

\* C12: match returns the empty-collection signal exactly when the in-memory sequence
\* has no record; on a non-empty collection where no record matches it returns an empty
\* sequence of matches.
C12_EmptySignal ==
  [][\A v \in DOMAIN views, filter \in TypedFilters :
       matchTyped(v, filter) =>
         /\ ret'.t = "false" <=> Len(arrays[views[v].storageData]) = 0
         /\ (Len(arrays[views[v].storageData]) > 0 /\ MatchExpected(v, filter) = <<>>) =>
              (ret'.t = "objects" /\ ret'.os = <<>>)]_vars

\* the sequence of the view the last call returned
NewViewData == IF ret.t = "view" THEN ViewData(ret.v) ELSE <<>>
\* the name field f of a record of view v is to carry in a derived record
DerivedName(v, f) == IF IsDerived(v) THEN f ELSE views[v].idbStorageName \o "." \o f
\* the record select is to derive from rec: the listed fields rec has, renamed
SelectRecord(v, rec, fields) ==
  [p \in {DerivedName(v, f) : f \in DOMAIN rec \cap fields} |->
     rec[CHOOSE f \in DOMAIN rec \cap fields : DerivedName(v, f) = p]]
SelectExpected(v, fields) ==
  LET kept == SelectSeq(ViewData(v), LAMBDA rec : DOMAIN rec \cap fields # {})
  IN [i \in DOMAIN kept |-> SelectRecord(v, kept[i], fields)]

\* C13: select(fields) on a view returns a result whose sequence holds, in source order,
\* one record for each source record that has a listed field, made of exactly the listed
\* fields the source record has, named X.<field> for a view of collection X and left
\* unprefixed for a derived result, with their values; other source records are dropped.
C13_SelectProjects ==
  [][\A v \in DOMAIN views, fields \in FieldLists :
       select(v, fields) =>
         /\ ret'.t = "view"
         /\ NewViewData' = SelectExpected(v, fields)]_vars

\* the pairs (i, j) of positions of a left and a right record with left[on] == right[equals],
\* by left position and then by right position
JoinPairs(l, r, filter) ==
  Flatten([i \in DOMAIN l |->
             LET js == SelectSeq([j \in DOMAIN r |-> j],
                                 LAMBDA j : JoinEq(l[i], filter.on, r[j], filter.equals))
             IN [k \in DOMAIN js |-> <<i, js[k]>>]])
\* the in-memory sequence of the collection innerjoin loads as its right side
RightData(n) == IF n \in DOMAIN storageData THEN MemOf(n) ELSE <<>>
JoinExpected(v, n, filter) ==
  LET pairs == JoinPairs(ViewData(v), RightData(n), filter)
  IN [k \in DOMAIN pairs |-> Merge(ViewData(v)[pairs[k][1]], views[v].idbStorageName,
                                    RightData(n)[pairs[k][2]], n)]

\* C14: innerjoin(other, {on, equals}) returns a result whose sequence holds one record
\* for each pair of a left and a right record with left[on] == right[equals] and no other
\* record, by left order and then right order, a pair that occurs twice kept twice; with
\* no such pair the result is empty.
C14_JoinPairs ==
  [][\A v \in DOMAIN views, n \in Names \cup ReservedNames, filter \in JoinFilters :
       innerjoin(v, n, filter) =>
         /\ ret'.t = "view"
         /\ NewViewData' = JoinExpected(v, n, filter)]_vars

\* the merged record m carries every field of the left record l of view v and every
\* field of the right record r of collection n, under their derived names
CarriesBoth(m, v, l, n, r) ==
  /\ \A f \in DOMAIN l : DerivedName(v, f) \in DOMAIN m /\ m[DerivedName(v, f)] = l[f]
  /\ \A f \in DOMAIN r : Prefixed(n, f) \in DOMAIN m /\ m[Prefixed(n, f)] = r[f]

\* C15: every record innerjoin emits carries all fields of its left record with the left
\* values and all fields of its right record with the right values, also when a
\* collection is joined with itself or a result with a collection it was built from.
C15_MergeKeepsBoth ==
  [][\A v \in DOMAIN views, n \in Names, filter \in JoinFilters :
       innerjoin(v, n, filter) =>
         LET pairs == JoinPairs(ViewData(v), RightData(n), filter)
         IN /\ Len(NewViewData') = Len(pairs)
            /\ \A k \in DOMAIN pairs :
                 CarriesBoth(NewViewData'[k], v, ViewData(v)[pairs[k][1]],
                             n, RightData(n)[pairs[k][2]])]_vars

\* the step is a call of select or innerjoin: only they leave a result or hang
QueryStep == /\ nops' = nops + 1
             /\ ret'.t \in {"view", "hang"}
             /\ ret'.e \in {"select", "innerjoin"}
\* the array of the view just returned is the array of no collection and of no other view
FreshResult ==
  /\ ret.t = "view"
  /\ \A n \in DOMAIN storageData : storageData[n] # views[ret.v].storageData
  /\ \A w \in DOMAIN views : w # ret.v => views[w].storageData # views[ret.v].storageData

\* C16: a call of select or innerjoin returns a result whose sequence is a new one, shared
\* with no collection and no other view, leaves the in-memory sequence of every
\* collection as it was and issues no write to the store, whatever the stores are named.
C16_FreshResult ==
  [][QueryStep =>
       /\ FreshResult'
       /\ DOMAIN storageData' = DOMAIN storageData
       /\ \A n \in DOMAIN storageData : MemOf(n)' = MemOf(n)
       /\ UNCHANGED <<db, pending>>]_vars

\* the positions (from 1) of the records of view v whose key field is k
KeyPositions(v, k) ==
  {i \in DOMAIN ViewData(v) :
     KeyPathOf(v) \in DOMAIN ViewData(v)[i] /\ ViewData(v)[i][KeyPathOf(v)] = k}
\* the step leaves the sequence of view v and the writes issued to the store as they were
Untouched(v) == ViewData(v)' = ViewData(v) /\ UNCHANGED <<db, pending>>

HoldsOwn(m) ==
  /\ idbConnection[m] = m
  /\ DOMAIN storageData[m] = DOMAIN db[m].stores
  /\ \A n \in DOMAIN db[m].stores : storageData[m][n] = CursorOver(db[m].stores[n])

\* C18: when two registries are opened and their open-success events interleave, the
\* onReady callback given to a registry's open receives that registry, and that
\* registry holds the connection to and the loaded collections of its own store
C18_OwnRegistry ==
  \A m \in Registries :
    readyCalls[m] # <<>> =>
      /\ \A i \in DOMAIN readyCalls[m] : readyCalls[m][i] = m
      /\ HoldsOwn(m)

\* two views the application got from with(name) for one collection of the store
SameCollection(v, w) ==
  /\ ~IsDerived(v) /\ ~IsDerived(w)
  /\ HasStore(v)
  /\ views[v].idbStorageName = views[w].idbStorageName

\* C19: after any sequence of insert, update, delete and truncate calls through any
\* views of one synced collection, every view of that collection, obtained before or
\* after those calls, returns the same sequence from fetchall() and the same number
\* from count()
C19_ViewsAgree ==
  \A v \in DOMAIN views, w \in DOMAIN views :
    SameCollection(v, w) =>
      /\ ViewData(v) = ViewData(w)
      /\ Len(arrays[views[v].storageData]) = Len(arrays[views[w].storageData])

\* C20: update(k, changes) called when no record has key k leaves fetchall() and
\* count() of the collection unchanged and issues no write to the persistent store
C20_UpdateMissing ==
  [][\A v \in DOMAIN views, k \in Keys :
       (~HasStore(v) \/ KeyPositions(v, k) = {}) =>
         \A changes \in Changes :
           update(v, k, changes) =>
             /\ ViewData(v)' = ViewData(v)
             /\ Len(arrays'[views'[v].storageData]) = Len(arrays[views[v].storageData])
             /\ \A n \in DOMAIN storageData : MemOf(n)' = MemOf(n)
             /\ UNCHANGED <<db, pending>>]_vars

\* an update of a missing key has just been refused on a collection that holds records
C20_Witness ==
  /\ ret = Throw("DataError")
  /\ \E v \in DOMAIN views : HasStore(v) /\ ViewData(v) # <<>>

\* the sequence s is the first Len(s) elements of the sequence t
IsPrefix(s, t) == Len(s) <= Len(t) /\ s = SubSeq(t, 1, Len(s))
\* the collections whose cursor has reported exhaustion
ExhaustedStores == {n \in objectStoreNames : Exhausted(n)}

\* C21: at every step of the load from open's success on, with no call made on a view,
\* each collection's in-memory sequence is a prefix, in cursor order, of the collection's
\* persisted contents, and the completion counter equals the number of collections whose
\* cursor has reported exhaustion and never exceeds the number of collections
C21_LoadingPrefix ==
  (request = "success" /\ nops = 0) =>
    /\ \A n \in objectStoreNames :
         n \in DOMAIN storageData /\ IsPrefix(MemOf(n), CursorOrder(n))
    /\ counter = Cardinality(ExhaustedStores)
    /\ counter <= Cardinality(objectStoreNames)

\* the load is under way: onReady has not fired, one collection is exhausted and
\* another holds some but not all of its records
C21_Witness ==
  /\ request = "success"
  /\ nops = 0
  /\ readyCalls = 0
  /\ counter = 1
  /\ \E n \in objectStoreNames :
       /\ Len(MemOf(n)) >= 1
       /\ Len(MemOf(n)) < Len(CursorOrder(n))

====
